---- MODULE Spec2Model ----
(***************************************************************************)
(* Model of syncmeg3.py: tagged-duration parsing, per-track extraction,    *)
(* the resync decision, the remux invocation and the folder run.           *)
(*                                                                         *)
(* Texts (duration tags, file names, paths) are sequences of one-character *)
(* strings, so that split, int(), float(), lower(), endswith() and         *)
(* os.path.splitext are computed character by character.                   *)
(* A duration is an integer count of 1/10000 s (the 4 decimals kept by     *)
(* round(total_seconds, 4)).  Python's None is the empty sequence and a    *)
(* present value v is <<v>>.                                               *)
(***************************************************************************)
EXTENDS Integers, Sequences, FiniteSets, TLC

VARIABLES
    dir,          \* names in the folder, in os.listdir order
    listing,      \* the list os.listdir returned to process_folder
    idx,          \* position of the for loop of process_folder in listing
    pc,           \* control position of the run
    input_file,   \* sync_audio_video: input_file
    video_time,   \* sync_audio_video: video_time
    audio_time,   \* sync_audio_video: audio_time
    error,        \* sync_audio_video: error
    output_file,  \* sync_audio_video: output_file
    results,      \* process_folder: results
    log,          \* entries appended to LOG_FILE by write_log
    tracks,       \* get_tag_durations_and_seconds: tracks
    procs,        \* the calls of subprocess.run and their completions
    arg,          \* argument of a direct call of a function
    ret           \* value returned by that call

vars == <<dir, listing, idx, pc, input_file, video_time, audio_time, error,
          output_file, results, log, tracks, procs, arg, ret>>

-----------------------------------------------------------------------------
(* Bounds of the model *)

MaxFiles == 2
MaxTracks == 2
MaxParts == 4
MaxPathLen == 6

-----------------------------------------------------------------------------
(* Python values and text helpers *)

None == << >>

Some(v) == << v >>

IsNone(x) == x = None

Val(x) == x[1]

DigitChars == <<"0", "1", "2", "3", "4", "5", "6", "7", "8", "9">>

IsDigit(c) == \E i \in 1..Len(DigitChars) : DigitChars[i] = c

DigitVal(c) == (CHOOSE i \in 1..Len(DigitChars) : DigitChars[i] = c) - 1

RECURSIVE Pow10(_)
Pow10(k) == IF k = 0 THEN 1 ELSE 10 * Pow10(k - 1)

RECURSIVE DigitsValue(_)
DigitsValue(s) ==
    IF s = << >> THEN 0
    ELSE 10 * DigitsValue(SubSeq(s, 1, Len(s) - 1)) + DigitVal(s[Len(s)])

AllDigits(s) == \A i \in 1..Len(s) : IsDigit(s[i])

IndexOf(s, c) ==
    IF \E i \in 1..Len(s) : s[i] = c
    THEN CHOOSE i \in 1..Len(s) : s[i] = c /\ \A j \in 1..(i - 1) : s[j] # c
    ELSE 0

\* str.rfind(c), 1-based; 0 when c does not occur
RFind(s, c) ==
    IF \E i \in 1..Len(s) : s[i] = c
    THEN CHOOSE i \in 1..Len(s) : s[i] = c /\ \A j \in (i + 1)..Len(s) : s[j] # c
    ELSE 0

\* str.split(":")
RECURSIVE Split(_)
Split(s) ==
    LET i == IndexOf(s, ":")
    IN  IF i = 0 THEN << s >>
        ELSE << SubSeq(s, 1, i - 1) >> \o Split(SubSeq(s, i + 1, Len(s)))

HasSign(s) == Len(s) > 0 /\ s[1] \in {"+", "-"}

Unsigned(s) == IF HasSign(s) THEN Tail(s) ELSE s

SignOf(s) == IF Len(s) > 0 /\ s[1] = "-" THEN -1 ELSE 1

\* int(text): an optional sign and at least one decimal digit; None stands
\* for the ValueError
PyInt(s) ==
    LET u == Unsigned(s)
    IN  IF Len(u) > 0 /\ AllDigits(u) THEN Some(SignOf(s) * DigitsValue(u))
        ELSE None

\* float(text): an optional sign, digits with at most one "." and at least
\* one digit.  The value is num / 10^scale, kept exact; None stands for the
\* ValueError
PyFloat(s) ==
    LET u == Unsigned(s)
        d == IndexOf(u, ".")
        ip == IF d = 0 THEN u ELSE SubSeq(u, 1, d - 1)
        fp == IF d = 0 THEN << >> ELSE SubSeq(u, d + 1, Len(u))
    IN  IF AllDigits(ip) /\ AllDigits(fp) /\ Len(ip) + Len(fp) > 0
        THEN Some([num |-> SignOf(s) * DigitsValue(ip \o fp), scale |-> Len(fp)])
        ELSE None

\* round(x, 4) of x = num / 10^scale, in units of 1/10000: to the nearest,
\* an exact tie to the even neighbour
Round4(num, scale) ==
    IF scale <= 4 THEN num * Pow10(4 - scale)
    ELSE LET q == Pow10(scale - 4)
             lo == num \div q
             r == num % q
         IN  IF 2 * r < q THEN lo
             ELSE IF 2 * r > q THEN lo + 1
             ELSE IF lo % 2 = 0 THEN lo ELSE lo + 1

-----------------------------------------------------------------------------
(* parse_duration_to_seconds *)

\* the value returned: None on any exception
parse_duration_to_seconds(duration) ==
    LET parts == Split(duration)
    IN  IF Len(parts) # 3 THEN None
        ELSE LET hours == PyInt(parts[1])
                 minutes == PyInt(parts[2])
                 seconds == PyFloat(parts[3])
             IN  IF IsNone(hours) \/ IsNone(minutes) \/ IsNone(seconds) THEN None
                 ELSE LET k == Val(seconds).scale
                          total == (Val(hours) * 3600 + Val(minutes) * 60) * Pow10(k)
                                   + Val(seconds).num
                      IN  Some(Round4(total, k))

ParseErrorEntry(duration) ==
    [src |-> "parse_duration_to_seconds", file |-> << >>, text |-> duration,
     video |-> None, audio |-> None, rule |-> "", out |-> << >>, err |-> << >>]

\* the entries the except branch writes to the log
ParseLog(duration) ==
    IF IsNone(parse_duration_to_seconds(duration))
    THEN << ParseErrorEntry(duration) >>
    ELSE << >>

-----------------------------------------------------------------------------
(* output path: os.path.splitext and the "_1" marker *)

SplitExtLastDot(p) ==
    LET dotIndex == RFind(p, ".")
    IN  IF dotIndex > 0
        THEN << SubSeq(p, 1, dotIndex - 1), SubSeq(p, dotIndex, Len(p)) >>
        ELSE << p, << >> >>

\* os.path.splitext: the extension starts at the last "." of the last path
\* component, leading dots of that component not counted
SplitExt(p) ==
    LET sepIndex == RFind(p, "/")
        dotIndex == RFind(p, ".")
    IN  IF dotIndex > sepIndex
           /\ \E i \in (sepIndex + 1)..(dotIndex - 1) : p[i] # "."
        THEN << SubSeq(p, 1, dotIndex - 1), SubSeq(p, dotIndex, Len(p)) >>
        ELSE << p, << >> >>

OutputFile(path) ==
    LET se == SplitExt(path)
    IN  se[1] \o <<"_", "1">> \o se[2]

-----------------------------------------------------------------------------
(* Texts of the program and of its environment *)

UNKNOWN == <<"u", "n", "k", "n", "o", "w", "n">>

DOT_MKV == <<".", "m", "k", "v">>

FOLDER == <<"d">>

A_MKV == <<"a", ".", "m", "k", "v">>

A_1_MKV == <<"a", "_", "1", ".", "m", "k", "v">>

\* file names a folder may hold
FileNames ==
    { A_MKV, A_1_MKV, <<"B", ".", "M", "K", "V">>, <<"a", ".", "t", "x", "t">> }

TAG_9 == <<"0", ":", "0", "0", ":", "0", "9">>

TAG_10 == <<"0", ":", "0", "0", ":", "1", "0">>

TAG_BAD == <<"x">>

\* tag_duration values of a track: absent, two well-formed ones, a malformed one
TagTexts == { UNKNOWN, TAG_9, TAG_10, TAG_BAD }

TrackTypes == {"video", "audio", "subtitles"}

Track(type, tag) == [isdict |-> TRUE, type |-> type, tag_duration |-> tag]

\* an element of "tracks" that is not a JSON object: track.get raises
NonDictTrack == [isdict |-> FALSE, type |-> "", tag_duration |-> UNKNOWN]

Tracks ==
    [isdict : {TRUE}, type : TrackTypes, tag_duration : TagTexts] \cup {NonDictTrack}

RECURSIVE SeqsUpTo(_, _)
SeqsUpTo(S, n) ==
    IF n = 0 THEN { << >> }
    ELSE LET shorter == SeqsUpTo(S, n - 1)
         IN  shorter \cup { Append(s, x) : s \in { t \in shorter : Len(t) = n - 1 }, x \in S }

NoDup(s) == \A i, j \in 1..Len(s) : i # j => s[i] # s[j]

StderrTexts == {"", "mkvmerge: error"}

ExceptionTexts == {"[WinError 5] Access is denied"}

ProcessResult(returncode, stderr, json_ok, trs) ==
    [returncode |-> returncode, stderr |-> stderr, json_ok |-> json_ok, tracks |-> trs]

\* what one run of mkvmerge -J can hand back: a failure, output that is not
\* JSON, or a track list
InspectResults ==
    { ProcessResult(1, e, TRUE, << >>) : e \in StderrTexts }
    \cup { ProcessResult(0, "", FALSE, << >>) }
    \cup { ProcessResult(0, "", TRUE, trs) : trs \in SeqsUpTo(Tracks, MaxTracks) }

\* the inspection results the files of a folder run draw from: one of each
\* kind of outcome
FolderInspectResults ==
    { ProcessResult(1, "mkvmerge: error", TRUE, << >>),
      ProcessResult(0, "", FALSE, << >>),
      ProcessResult(0, "", TRUE, << >>),
      ProcessResult(0, "", TRUE, << Track("video", TAG_9), Track("audio", TAG_10) >>),
      ProcessResult(0, "", TRUE, << Track("video", TAG_10), Track("audio", TAG_10) >>),
      ProcessResult(0, "", TRUE, << Track("video", TAG_10), Track("audio", TAG_9) >>),
      ProcessResult(0, "", TRUE, << Track("video", TAG_BAD), Track("audio", TAG_10) >>) }

\* str.lower() on the letters file names use
LowerChar(c) ==
    CASE c = "M" -> "m"
      [] c = "K" -> "k"
      [] c = "V" -> "v"
      [] c = "A" -> "a"
      [] c = "B" -> "b"
      [] OTHER -> c

Lower(s) == [i \in 1..Len(s) |-> LowerChar(s[i])]

EndsWith(s, suffix) ==
    Len(s) >= Len(suffix) /\ SubSeq(s, Len(s) - Len(suffix) + 1, Len(s)) = suffix

\* os.path.join(folder_path, file)
PathJoin(folder, file) == folder \o <<"/">> \o file

\* the name of a path inside a folder
BaseName(path) == SubSeq(path, RFind(path, "/") + 1, Len(path))

-----------------------------------------------------------------------------
(* get_tag_durations_and_seconds *)

\* lines 57-67, and 69-70 when an element of tracks has no get
RECURSIVE ExtractLoop(_, _, _, _, _)
ExtractLoop(trs, i, v, a, lg) ==
    IF i > Len(trs)
    THEN [video_time |-> v, audio_time |-> a, error |-> None, logs |-> lg]
    ELSE LET track == trs[i]
         IN  IF ~track.isdict
             THEN [video_time |-> None, audio_time |-> None,
                   error |-> <<"Error processing mkvmerge output: ", "AttributeError">>,
                   logs |-> lg]
             ELSE IF track.tag_duration # UNKNOWN
             THEN LET duration_in_seconds == parse_duration_to_seconds(track.tag_duration)
                  IN  ExtractLoop(trs, i + 1,
                                  IF track.type = "video" THEN duration_in_seconds ELSE v,
                                  IF track.type = "audio" THEN duration_in_seconds ELSE a,
                                  lg \o ParseLog(track.tag_duration))
             ELSE ExtractLoop(trs, i + 1, v, a, lg)

\* from the completed subprocess.run to the return
TagDurations(result) ==
    IF result.returncode # 0
    THEN [video_time |-> None, audio_time |-> None,
          error |-> <<"Error running mkvmerge: ", result.stderr>>, logs |-> << >>]
    ELSE IF ~result.json_ok
    THEN [video_time |-> None, audio_time |-> None,
          error |-> <<"Error processing mkvmerge output: ", "JSONDecodeError">>,
          logs |-> << >>]
    ELSE ExtractLoop(result.tracks, 1, None, None, << >>)

ToolNotFound == <<"Error: mkvmerge.exe not found in the current directory.">>

SpawnError(e) == <<"Error processing mkvmerge output: ", e>>

-----------------------------------------------------------------------------
(* sync_audio_video: the decision and the outcomes *)

SyncEntry(file, v, a, rule, out, err) ==
    [src |-> "sync_audio_video", file |-> file, text |-> << >>,
     video |-> v, audio |-> a, rule |-> rule, out |-> out, err |-> err]

\* the string returned, by its parts
Outcome(kind, file, out, detail) ==
    [kind |-> kind, file |-> file, out |-> out, detail |-> detail]

NeedsResyncLe(v, a) == ~IsNone(v) /\ ~IsNone(a) /\ Val(v) <= Val(a)

\* lines 80-81
NeedsResync(v, a) == ~IsNone(v) /\ ~IsNone(a) /\ Val(v) < Val(a)

\* lines 75-77
ErrorOutcome(file, err) ==
    [result |-> Outcome("ErrorProcessing", file, << >>, err),
     logs |-> << SyncEntry(file, None, None, "", << >>, err) >>]

SkippedOutcomeUnlogged(file, v, a) ==
    [result |-> Outcome("Skipped", file, << >>, <<"video_time == audio_time">>),
     logs |-> << >>]

\* lines 105-108
SkippedOutcome(file, v, a) ==
    [result |-> Outcome("Skipped", file, << >>, <<"video_time == audio_time">>),
     logs |-> << SyncEntry(file, v, a, "video_time == audio_time", << >>, << >>) >>]

NoDurationsOutcomeSkipped(file, v, a) ==
    [result |-> Outcome("Skipped", file, << >>, <<"Unable to retrieve durations">>),
     logs |-> << SyncEntry(file, v, a, "", << >>, <<"Unable to retrieve durations">>) >>]

\* lines 109-111
NoDurationsOutcome(file, v, a) ==
    [result |-> Outcome("ErrorDurations", file, << >>, <<"Unable to retrieve durations">>),
     logs |-> << SyncEntry(file, v, a, "", << >>, <<"Unable to retrieve durations">>) >>]

RemuxOutcomeIgnoringExit(file, v, a, out, returncode, stderr) ==
    [result |-> Outcome("Success", file, out, << >>),
     logs |-> << SyncEntry(file, v, a, "video_time < audio_time", out, << >>) >>]

\* lines 93-100
RemuxOutcome(file, v, a, out, returncode, stderr) ==
    IF returncode = 0
    THEN [result |-> Outcome("Success", file, out, << >>),
          logs |-> << SyncEntry(file, v, a, "video_time < audio_time", out, << >>) >>]
    ELSE [result |-> Outcome("ErrorProcessing", file, << >>, << stderr >>),
          logs |-> << SyncEntry(file, v, a, "", << >>, << stderr >>) >>]

\* lines 101-104
RemuxExceptionOutcome(file, v, a, e) ==
    [result |-> Outcome("ErrorExecuting", file, << >>, << e >>),
     logs |-> << SyncEntry(file, v, a, "", << >>, << e >>) >>]

\* a call of subprocess.run: "start" when the process is running, "raised"
\* when the call raised instead, "end" when the process has exited
ProcEvent(file, tool, ev, returncode, text) ==
    [file |-> file, tool |-> tool, ev |-> ev, returncode |-> returncode, text |-> text]

-----------------------------------------------------------------------------
(* process_folder *)

\* line 117
IsMkv(file) == EndsWith(Lower(file), DOT_MKV)

LiveEntries == dir

\* line 116: the for loop runs over the list os.listdir returned
Entries == listing

ReturnAbortOnError(o) ==
    /\ results' = Append(results, o.result)
    /\ idx' = idx + 1
    /\ pc' = IF o.result.kind \in {"Success", "Skipped"} THEN "loop" ELSE "done"

\* lines 119-120: sync_audio_video returns o.result, the loop appends it and
\* moves on to the next entry
Return(o) ==
    /\ results' = Append(results, o.result)
    /\ idx' = idx + 1
    /\ pc' = "loop"

InitRun ==
    /\ listing = << >>
    /\ idx = 1
    /\ pc = "start"
    /\ input_file = << >>
    /\ video_time = None
    /\ audio_time = None
    /\ error = None
    /\ output_file = << >>
    /\ results = << >>
    /\ log = << >>
    /\ tracks = << >>
    /\ procs = << >>
    /\ arg = << >>
    /\ ret = << >>

\* a folder of up to MaxFiles entries
Init ==
    /\ dir \in { s \in SeqsUpTo(FileNames, MaxFiles) : NoDup(s) }
    /\ InitRun

\* lines 115-116: results = [] and the one call of os.listdir
ListDir ==
    /\ pc = "start"
    /\ listing' = dir
    /\ idx' = 1
    /\ results' = << >>
    /\ pc' = "loop"
    /\ UNCHANGED <<dir, input_file, video_time, audio_time, error, output_file,
                   log, tracks, procs, arg, ret>>

\* line 121: the loop is exhausted
ForDone ==
    /\ pc = "loop"
    /\ idx > Len(Entries)
    /\ pc' = "done"
    /\ UNCHANGED <<dir, listing, idx, input_file, video_time, audio_time, error,
                   output_file, results, log, tracks, procs, arg, ret>>

\* line 117: an entry that does not end with .mkv is passed over
ForSkip ==
    /\ pc = "loop"
    /\ idx <= Len(Entries)
    /\ ~IsMkv(Entries[idx])
    /\ idx' = idx + 1
    /\ UNCHANGED <<dir, listing, pc, input_file, video_time, audio_time, error,
                   output_file, results, log, tracks, procs, arg, ret>>

\* lines 118-119: sync_audio_video(file_path) is entered
ForCall ==
    /\ pc = "loop"
    /\ idx <= Len(Entries)
    /\ IsMkv(Entries[idx])
    /\ input_file' = PathJoin(FOLDER, Entries[idx])
    /\ video_time' = None
    /\ audio_time' = None
    /\ error' = None
    /\ output_file' = << >>
    /\ tracks' = << >>
    /\ pc' = "inspect"
    /\ UNCHANGED <<dir, listing, idx, results, log, procs, arg, ret>>

\* lines 39-40: mkvmerge.exe is not a file; lines 75-77
InspectToolMissing ==
    /\ pc = "inspect"
    /\ error' = ToolNotFound
    /\ LET o == ErrorOutcome(input_file, ToolNotFound)
       IN  /\ log' = log \o o.logs
           /\ Return(o)
    /\ UNCHANGED <<dir, listing, input_file, video_time, audio_time, output_file,
                   tracks, procs, arg, ret>>

\* line 43: subprocess.run starts mkvmerge -J and blocks
InspectSpawn ==
    /\ pc = "inspect"
    /\ procs' = Append(procs, ProcEvent(input_file, "inspect", "start", 0, ""))
    /\ pc' = "inspecting"
    /\ UNCHANGED <<dir, listing, idx, input_file, video_time, audio_time, error,
                   output_file, results, log, tracks, arg, ret>>

\* line 43 raises (mkvmerge.exe is there but cannot be run): lines 69-70, 75-77
InspectSpawnFail ==
    /\ pc = "inspect"
    /\ \E e \in ExceptionTexts :
          /\ procs' = Append(procs, ProcEvent(input_file, "inspect", "raised", 0, e))
          /\ error' = SpawnError(e)
          /\ LET o == ErrorOutcome(input_file, SpawnError(e))
             IN  /\ log' = log \o o.logs
                 /\ Return(o)
    /\ UNCHANGED <<dir, listing, input_file, video_time, audio_time, output_file,
                   tracks, arg, ret>>

\* lines 50-70 and 74-83, 105-111: the inspection has completed with a result
\* of the set S; the durations are extracted and the decision is taken
InspectReturn(S) ==
    /\ pc = "inspecting"
    /\ \E result \in S :
          LET t == TagDurations(result)
          IN  /\ procs' = Append(procs, ProcEvent(input_file, "inspect", "end",
                                                  result.returncode, result.stderr))
              /\ tracks' = result.tracks
              /\ video_time' = t.video_time
              /\ audio_time' = t.audio_time
              /\ error' = t.error
              /\ IF ~IsNone(t.error)
                 THEN LET o == ErrorOutcome(input_file, t.error)
                      IN  /\ log' = log \o t.logs \o o.logs
                          /\ Return(o)
                          /\ UNCHANGED output_file
                 ELSE IF NeedsResync(t.video_time, t.audio_time)
                 THEN /\ output_file' = OutputFile(input_file)
                      /\ log' = log \o t.logs
                      /\ pc' = "remux"
                      /\ UNCHANGED <<idx, results>>
                 ELSE IF ~IsNone(t.video_time) /\ ~IsNone(t.audio_time)
                 THEN LET o == SkippedOutcome(input_file, t.video_time, t.audio_time)
                      IN  /\ log' = log \o t.logs \o o.logs
                          /\ Return(o)
                          /\ UNCHANGED output_file
                 ELSE LET o == NoDurationsOutcome(input_file, t.video_time, t.audio_time)
                      IN  /\ log' = log \o t.logs \o o.logs
                          /\ Return(o)
                          /\ UNCHANGED output_file
    /\ UNCHANGED <<dir, listing, input_file, arg, ret>>

\* line 92: subprocess.run starts the remux and blocks
RemuxSpawn ==
    /\ pc = "remux"
    /\ procs' = Append(procs, ProcEvent(input_file, "remux", "start", 0, ""))
    /\ pc' = "remuxing"
    /\ UNCHANGED <<dir, listing, idx, input_file, video_time, audio_time, error,
                   output_file, results, log, tracks, arg, ret>>

\* line 92 raises: lines 101-104
RemuxSpawnFail ==
    /\ pc = "remux"
    /\ \E e \in ExceptionTexts :
          LET o == RemuxExceptionOutcome(input_file, video_time, audio_time, e)
          IN  /\ procs' = Append(procs, ProcEvent(input_file, "remux", "raised", 0, e))
              /\ log' = log \o o.logs
              /\ Return(o)
    /\ UNCHANGED <<dir, listing, input_file, video_time, audio_time, error,
                   output_file, tracks, arg, ret>>

\* the folder after a remux that exited 0 has written its output file
WithOutput(d, path) ==
    IF \E i \in 1..Len(d) : d[i] = BaseName(path) THEN d ELSE Append(d, BaseName(path))

RemuxReturnRetrying ==
    /\ pc = "remuxing"
    /\ \E returncode \in {0, 1}, stderr \in StderrTexts :
          LET o == RemuxOutcome(input_file, video_time, audio_time, output_file,
                                returncode, stderr)
          IN  /\ procs' = Append(procs, ProcEvent(input_file, "remux", "end",
                                                  returncode, stderr))
              /\ IF returncode = 0
                 THEN /\ log' = log \o o.logs
                      /\ Return(o)
                      /\ dir' = WithOutput(dir, output_file)
                 ELSE /\ pc' = "remux"
                      /\ UNCHANGED <<log, results, idx, dir>>
    /\ UNCHANGED <<listing, input_file, video_time, audio_time, error,
                   output_file, tracks, arg, ret>>

\* lines 93-100: the remux has completed
RemuxReturn ==
    /\ pc = "remuxing"
    /\ \E returncode \in {0, 1}, stderr \in StderrTexts :
          LET o == RemuxOutcome(input_file, video_time, audio_time, output_file,
                                returncode, stderr)
          IN  /\ procs' = Append(procs, ProcEvent(input_file, "remux", "end",
                                                  returncode, stderr))
              /\ log' = log \o o.logs
              /\ Return(o)
              /\ dir' = IF returncode = 0 THEN WithOutput(dir, output_file) ELSE dir
    /\ UNCHANGED <<listing, input_file, video_time, audio_time, error,
                   output_file, tracks, arg, ret>>

SyncSteps ==
    \/ ListDir
    \/ ForDone
    \/ ForSkip
    \/ ForCall
    \/ InspectToolMissing
    \/ InspectSpawn
    \/ InspectSpawnFail
    \/ RemuxSpawn
    \/ RemuxSpawnFail
    \/ RemuxReturn

Next ==
    \/ SyncSteps
    \/ InspectReturn(FolderInspectResults)

\* a folder run over up to MaxFiles entries
Spec == Init /\ [][Next]_vars

\* a folder holding one entry, its inspection handing back any track list of
\* up to MaxTracks tracks
InitOne ==
    /\ dir \in { << n >> : n \in FileNames }
    /\ InitRun

NextOne ==
    \/ SyncSteps
    \/ InspectReturn(InspectResults)

SpecOne == InitOne /\ [][NextOne]_vars

-----------------------------------------------------------------------------
(* Direct calls of parse_duration_to_seconds and of the output-path rule *)

RECURSIVE Join(_)
Join(parts) ==
    IF Len(parts) = 1 THEN parts[1]
    ELSE parts[1] \o <<":">> \o Join(Tail(parts))

\* components a duration text is put together from
ParseComponents ==
    { <<"0">>, <<"0", "2">>, <<"-", "5">>, <<"x">>, << >>,
      <<"1", ".", "5">>, <<"0", ".", "0", "0", "0", "0", "7">> }

ParseTexts ==
    { Join(parts) : parts \in { q \in SeqsUpTo(ParseComponents, MaxParts) : Len(q) >= 1 } }

PathChars == {"a", ".", "/"}

\* paths of a file: they start with a name character and their last
\* component is a name, not "", "." or ".."
Paths ==
    { q \in SeqsUpTo(PathChars, MaxPathLen) :
        /\ Len(q) >= 1
        /\ q[1] = "a"
        /\ \E i \in (RFind(q, "/") + 1)..Len(q) : q[i] = "a" }

InitCall(inputs) ==
    /\ dir = << >>
    /\ listing = << >>
    /\ idx = 1
    /\ pc = "call"
    /\ input_file = << >>
    /\ video_time = None
    /\ audio_time = None
    /\ error = None
    /\ output_file = << >>
    /\ results = << >>
    /\ log = << >>
    /\ tracks = << >>
    /\ procs = << >>
    /\ arg \in inputs
    /\ ret = << >>

\* parse_duration_to_seconds(arg) runs to its return
CallParse ==
    /\ pc = "call"
    /\ ret' = parse_duration_to_seconds(arg)
    /\ log' = log \o ParseLog(arg)
    /\ pc' = "returned"
    /\ UNCHANGED <<dir, listing, idx, input_file, video_time, audio_time, error,
                   output_file, results, tracks, procs, arg>>

InitParse == InitCall(ParseTexts)

NextParse == CallParse

SpecParse == InitParse /\ [][NextParse]_vars

\* lines 82-83 on the path arg
CallOutputFile ==
    /\ pc = "call"
    /\ ret' = OutputFile(arg)
    /\ pc' = "returned"
    /\ UNCHANGED <<dir, listing, idx, input_file, video_time, audio_time, error,
                   output_file, results, log, tracks, procs, arg>>

InitPath == InitCall(Paths)

NextPath == CallOutputFile

SpecPath == InitPath /\ [][NextPath]_vars

-----------------------------------------------------------------------------
(* Vocabulary of the properties *)

\* the last call of sync_audio_video has returned and its locals still stand
Finished ==
    /\ pc \in {"loop", "done"}
    /\ Len(results) > 0
    /\ results[Len(results)].file = input_file

LastResult == results[Len(results)]

LastProc == procs[Len(procs)]

IsCall(e) == e.ev \in {"start", "raised"}

\* subprocess.run has been called to remux file f
RemuxCalled(f) ==
    \E i \in DOMAIN procs : procs[i].file = f /\ procs[i].tool = "remux" /\ IsCall(procs[i])

InspectionCompleted(f) ==
    \E i \in DOMAIN procs :
        procs[i].file = f /\ procs[i].tool = "inspect" /\ procs[i].ev = "end"

BothPresent == ~IsNone(video_time) /\ ~IsNone(audio_time)

VideoShorter == BothPresent /\ Val(video_time) < Val(audio_time)

\* a name that ends with ".mkv" in any mix of cases
EndsDotMkvAnyCase(name) ==
    /\ Len(name) >= 4
    /\ name[Len(name) - 3] = "."
    /\ name[Len(name) - 2] \in {"m", "M"}
    /\ name[Len(name) - 1] \in {"k", "K"}
    /\ name[Len(name)] \in {"v", "V"}

Matching(list) == SelectSeq(list, EndsDotMkvAnyCase)

Range(seq) == { seq[i] : i \in DOMAIN seq }

IsSyncEntry(e) == e.src = "sync_audio_video"

IsParseEntry(e) == e.src = "parse_duration_to_seconds"

\* the tracks whose tag is read and does not parse
FailedTags(trs) ==
    { i \in DOMAIN trs :
        /\ \A j \in 1..i : trs[j].isdict
        /\ trs[i].tag_duration # UNKNOWN
        /\ IsNone(parse_duration_to_seconds(trs[i].tag_duration)) }

\* the first track of a type that carries a tag other than "unknown"
TaggedOfType(trs, type) ==
    { i \in DOMAIN trs : trs[i].type = type /\ trs[i].tag_duration # UNKNOWN }

FirstTagged(trs, type) ==
    CHOOSE i \in TaggedOfType(trs, type) : \A j \in TaggedOfType(trs, type) : i <= j

FirstTaggedDuration(trs, type) ==
    IF TaggedOfType(trs, type) = {} THEN None
    ELSE parse_duration_to_seconds(trs[FirstTagged(trs, type)].tag_duration)

-----------------------------------------------------------------------------
(* C1 *)

\* C1: the remux is called for a file if and only if its extraction gave no
\* error and both durations with video < audio; in every other case no remux
\* call is made for it.
C1_RemuxIffVideoShorter ==
    /\ RemuxCalled(input_file) => IsNone(error) /\ VideoShorter
    /\ pc \in {"remux", "remuxing"} => IsNone(error) /\ VideoShorter
    /\ Finished /\ IsNone(error) /\ VideoShorter => RemuxCalled(input_file)

C1_Witness ==
    /\ Finished
    /\ RemuxCalled(input_file)
    /\ Val(video_time) = 90000
    /\ Val(audio_time) = 100000

-----------------------------------------------------------------------------
(* C2 *)

\* C2: after a successful extraction, video_time is the parsed tag of the
\* first tagged video track and audio_time that of the first tagged audio
\* track, whatever later tracks of the same type carry.
C2_FirstTrackWins ==
    InspectionCompleted(input_file) /\ IsNone(error)
        => /\ video_time = FirstTaggedDuration(tracks, "video")
           /\ audio_time = FirstTaggedDuration(tracks, "audio")

-----------------------------------------------------------------------------
(* C3 *)

\* C3 as stated: between files the log holds exactly one entry per processed
\* file, the i-th entry being that of the i-th file.
C3_OneEntryPerFile ==
    pc \in {"loop", "done"}
        => /\ Len(log) = Len(results)
           /\ \A i \in DOMAIN log : log[i].file = results[i].file

\* C3 amended: between files, the entries written by sync_audio_video are one
\* per processed file in processing order; every other entry is the report of
\* a duration tag that does not parse; and the entries of the file just
\* processed are one such report per unparseable tag read, followed by the one
\* entry of sync_audio_video.
C3_OneSyncEntryPerFile ==
    pc \in {"loop", "done"}
        => LET se == SelectSeq(log, IsSyncEntry)
               k == Cardinality(FailedTags(tracks))
               n == Len(log)
           IN  /\ Len(se) = Len(results)
               /\ \A i \in DOMAIN se : se[i].file = results[i].file
               /\ \A i \in DOMAIN log :
                      ~IsSyncEntry(log[i])
                          => /\ IsParseEntry(log[i])
                             /\ IsNone(parse_duration_to_seconds(log[i].text))
               /\ Finished
                      => /\ n >= k + 1
                         /\ IsSyncEntry(log[n])
                         /\ log[n].file = input_file
                         /\ \A j \in 1..k : IsParseEntry(log[n - j])
                         /\ n > k + 1 => IsSyncEntry(log[n - k - 1])

C3_Witness ==
    /\ pc = "done"
    /\ Len(results) = 2
    /\ Len(log) = 3
    /\ IsParseEntry(log[1])

-----------------------------------------------------------------------------
(* C4 *)

\* C4: the results are one per listed entry whose name ends with ".mkv" in
\* any case, in listing order; when the run is done none is missing, whatever
\* failed on the way; and a file's outcome is a success exactly when its own
\* remux exited 0.
C4_OneOutcomePerMkv ==
    LET m == Matching(listing)
    IN  /\ Len(results) <= Len(m)
        /\ \A i \in DOMAIN results : results[i].file = PathJoin(FOLDER, m[i])
        /\ pc = "done" => Len(results) = Len(m)
        /\ \A i \in DOMAIN results :
               results[i].kind = "Success"
                   <=> \E j \in DOMAIN procs :
                           /\ procs[j].file = results[i].file
                           /\ procs[j].tool = "remux"
                           /\ procs[j].ev = "end"
                           /\ procs[j].returncode = 0

C4_Witness ==
    /\ pc = "done"
    /\ Len(results) = 2
    /\ results[1].kind = "ErrorProcessing"
    /\ results[2].kind = "Success"

-----------------------------------------------------------------------------
(* C5 *)

\* C5 as stated: a file whose extraction gave no error and that needs no
\* resync is Skipped.
C5_NoActionIsSkipped ==
    Finished /\ IsNone(error) /\ ~VideoShorter => LastResult.kind = "Skipped"

\* C5 amended: after an extraction without error, a file with both durations
\* and video not less than audio (equal or greater) is Skipped with the
\* message "video_time == audio_time"; a file with a duration absent is not
\* Skipped but gets the error "Unable to retrieve durations"; in neither case
\* is the remux called.
C5_SkippedOrNoDurations ==
    Finished /\ IsNone(error) /\ ~VideoShorter
        => /\ ~RemuxCalled(input_file)
           /\ BothPresent
                  => LastResult = Outcome("Skipped", input_file, << >>,
                                          <<"video_time == audio_time">>)
           /\ ~BothPresent
                  => LastResult = Outcome("ErrorDurations", input_file, << >>,
                                          <<"Unable to retrieve durations">>)

C5_Witness ==
    /\ Finished
    /\ IsNone(error)
    /\ BothPresent
    /\ Val(video_time) > Val(audio_time)
    /\ LastResult.kind = "Skipped"

-----------------------------------------------------------------------------
(* C6 *)

\* C6: once the remux of a file has been called and the file is finished,
\* the outcome is Success with the planned output path exactly when the
\* process exited 0; on another exit status it is an error carrying the
\* process's stderr as it is, and when the call raised it is an error carrying
\* the exception text.
C6_RemuxOutcome ==
    /\ Finished /\ RemuxCalled(input_file)
           => /\ LastProc.file = input_file /\ LastProc.tool = "remux"
              /\ LastProc.ev = "end" /\ LastProc.returncode = 0
                     => LastResult = Outcome("Success", input_file,
                                             OutputFile(input_file), << >>)
              /\ LastProc.ev = "end" /\ LastProc.returncode # 0
                     => /\ LastResult.kind = "ErrorProcessing"
                        /\ LastResult.detail = << LastProc.text >>
              /\ LastProc.ev = "raised"
                     => /\ LastResult.kind = "ErrorExecuting"
                        /\ LastResult.detail = << LastProc.text >>
    /\ Finished /\ LastResult.kind = "Success"
           => /\ LastProc.file = input_file /\ LastProc.tool = "remux"
              /\ LastProc.ev = "end" /\ LastProc.returncode = 0

C6_Witness ==
    /\ Finished
    /\ RemuxCalled(input_file)
    /\ LastProc.ev = "end"
    /\ LastProc.returncode = 1
    /\ LastProc.text = "mkvmerge: error"
    /\ LastResult.detail = <<"mkvmerge: error">>

-----------------------------------------------------------------------------
(* C7 *)

\* C7: a file has at most one inspection call and at most one remux call; a
\* started process is the last event or is followed at once by its own end,
\* so no two processes overlap; a remux is called only after the inspection
\* of the same file has ended; and the events of one file are never
\* interleaved with those of another.
C7_SequentialNoRetry ==
    /\ \A i, j \in DOMAIN procs :
           /\ i < j
           /\ IsCall(procs[i]) /\ IsCall(procs[j])
           /\ procs[i].file = procs[j].file
           => procs[i].tool = "inspect" /\ procs[j].tool = "remux"
    /\ \A i \in DOMAIN procs :
           procs[i].ev = "start" /\ i < Len(procs)
               => /\ procs[i + 1].ev = "end"
                  /\ procs[i + 1].file = procs[i].file
                  /\ procs[i + 1].tool = procs[i].tool
    /\ \A i \in DOMAIN procs :
           procs[i].ev = "end"
               => /\ i > 1
                  /\ procs[i - 1].ev = "start"
                  /\ procs[i - 1].file = procs[i].file
                  /\ procs[i - 1].tool = procs[i].tool
    /\ \A i \in DOMAIN procs :
           procs[i].tool = "remux" /\ IsCall(procs[i])
               => \E j \in 1..(i - 1) :
                      /\ procs[j].file = procs[i].file
                      /\ procs[j].tool = "inspect"
                      /\ procs[j].ev = "end"
    /\ \A i, j, k \in DOMAIN procs :
           i < j /\ j < k /\ procs[i].file = procs[k].file
               => procs[j].file = procs[i].file

C7_Witness ==
    /\ pc = "done"
    /\ \E i, j \in DOMAIN procs :
           /\ i < j
           /\ procs[i].tool = "remux" /\ procs[i].ev = "end" /\ procs[i].returncode = 1
           /\ procs[j].file # procs[i].file
           /\ procs[j].tool = "remux" /\ procs[j].ev = "end"

-----------------------------------------------------------------------------
(* C8 *)

PlainDigits(s) == Len(s) > 0 /\ AllDigits(s)

\* digits with at most one "." among them and no sign
PlainReal(s) ==
    /\ \E i \in DOMAIN s : IsDigit(s[i])
    /\ \A i \in DOMAIN s : IsDigit(s[i]) \/ s[i] = "."
    /\ \A i, j \in DOMAIN s : s[i] = "." /\ s[j] = "." => i = j

\* C8: a call that returns a number returns a non-negative one, and only for
\* a text of three components of which hours and minutes are plain
\* non-negative integers and seconds a plain non-negative number.
C8_NeverNegative ==
    pc = "returned" /\ ~IsNone(ret)
        => /\ Val(ret) >= 0
           /\ Len(Split(arg)) = 3
           /\ PlainDigits(Split(arg)[1])
           /\ PlainDigits(Split(arg)[2])
           /\ PlainReal(Split(arg)[3])

-----------------------------------------------------------------------------
(* C9 *)

InsertMarker(p, k) == SubSeq(p, 1, k) \o <<"_", "1">> \o SubSeq(p, k + 1, Len(p))

HasChar(s, c) == \E i \in DOMAIN s : s[i] = c

LastIndexOf(s, c) == CHOOSE i \in DOMAIN s : s[i] = c /\ \A j \in DOMAIN s : s[j] = c => j <= i

\* C9 as stated: the marker stands immediately before the last "." of the
\* file name (the last path component), or at the end of a path whose file
\* name has no ".", and the output differs from the input.
C9_BeforeLastSeparator ==
    pc = "returned"
        => LET name == BaseName(arg)
               dir_part == Len(arg) - Len(name)
           IN  /\ ret # arg
               /\ ret = IF HasChar(name, ".")
                        THEN InsertMarker(arg, dir_part + LastIndexOf(name, ".") - 1)
                        ELSE InsertMarker(arg, Len(arg))

\* C9 amended: the output always differs from the input; the marker stands
\* immediately before the last "." of the path when that "." lies in the last
\* path component and a character other than "." precedes it there, and at
\* the end of the path in every other case (no ".", the last "." in a folder
\* name, or a last component that only has leading dots before it).
C9_BeforeExtensionOfLastComponent ==
    pc = "returned"
        => LET comp == IF HasChar(arg, "/") THEN LastIndexOf(arg, "/") + 1 ELSE 1
               dot == IF HasChar(arg, ".") THEN LastIndexOf(arg, ".") ELSE 0
               hasExt == /\ dot >= comp
                         /\ \E i \in comp..(dot - 1) : arg[i] # "."
           IN  /\ ret # arg
               /\ Len(ret) = Len(arg) + 2
               /\ hasExt => ret = InsertMarker(arg, dot - 1)
               /\ ~hasExt => ret = arg \o <<"_", "1">>

C9_Witness ==
    /\ pc = "returned"
    /\ arg = <<"a", ".", "a", "/", "a">>
    /\ ret = <<"a", ".", "a", "/", "a", "_", "1">>

-----------------------------------------------------------------------------
(* C10 *)

\* C10: every file processed is an entry of the one listing taken at the
\* start, no file is processed twice, the loop never runs past that listing,
\* and when the run is done the files processed are exactly the listing's
\* entries ending with ".mkv": a file the run itself wrote is not processed.
C10_ListingTakenOnce ==
    /\ \A i \in DOMAIN results : BaseName(results[i].file) \in Range(listing)
    /\ \A i, j \in DOMAIN results : results[i].file = results[j].file => i = j
    /\ idx <= Len(listing) + 1
    /\ Len(results) < idx
    /\ pc = "done"
           => { BaseName(results[i].file) : i \in DOMAIN results }
                  = { n \in Range(listing) : EndsDotMkvAnyCase(n) }

C10_Witness ==
    /\ pc = "done"
    /\ listing = << A_MKV >>
    /\ dir = << A_MKV, A_1_MKV >>
    /\ Len(results) = 1
    /\ results[1].kind = "Success"

====
